---- MODULE Spec2Model ----
(***************************************************************************)
(* BugzillaTracker: the state file (notifier.STATE_FILE), one              *)
(* reconciliation cycle (notifier.check_bugzilla followed by the delivery  *)
(* of its events) and the daily reset of main.main, as a state machine.    *)
(*                                                                         *)
(* fetch_all_bugs is modelled from its HTTP call on (notifier.py 62-73):   *)
(* the answer of the tracker is an input. The query it sends (lines 50-60, *)
(* config.get_query_params) is not part of the model.                      *)
(***************************************************************************)
EXTENDS Integers, Sequences, FiniteSets, TLC

(* ------------------------------ bounds -------------------------------- *)

\* bug ids of the tracker are 1..MaxId
MaxId == 2
\* the tracker answers with at most MaxBugs records
MaxBugs == 2

(* ------------------------------ values -------------------------------- *)

\* Python's None, as the result of dict.get on a missing key
None == "<None>"

\* status strings the tracker may send; the empty string is one of them
Statuses == {"CONFIRMED", "RESOLVED", ""}

\* a record of the tracker's answer: a dict with the keys it has.
\* 'id' and 'status' are the keys check_bugzilla reads for the state.
BugDicts ==
    {[id |-> i, status |-> s] : i \in 1..MaxId, s \in Statuses}
        \cup {[id |-> i] : i \in 1..MaxId}
        \cup {[status |-> s] : s \in {"CONFIRMED"}}

RECURSIVE SeqsUpTo(_, _)
SeqsUpTo(S, n) ==
    IF n = 0 THEN {<<>>}
    ELSE LET shorter == SeqsUpTo(S, n - 1)
         IN  shorter \cup {Append(q, x) : q \in {r \in shorter : Len(r) = n - 1}, x \in S}

\* every answer the tracker may give
Answers == SeqsUpTo(BugDicts, MaxBugs)

\* dict.get(key, default)
get(d, key, default) == IF key \in DOMAIN d THEN d[key] ELSE default

\* Python truthiness of a status (None and "" are false)
truthy(s) == s # None /\ s # ""

Digits == <<"0", "1", "2", "3", "4", "5", "6", "7", "8", "9">>

\* str(bug_id) of a positive integer
RECURSIVE str(_)
str(n) == IF n < 10 THEN Digits[n + 1] ELSE str(n \div 10) \o Digits[(n % 10) + 1]

\* the empty dict {}
EmptyStates == [k \in {} |-> ""]

\* d[key] = value
setitem(d, key, value) ==
    [k \in DOMAIN d \cup {key} |-> IF k = key THEN value ELSE d[k]]

(* --------------------------- the state file --------------------------- *)

\* contents of STATE_FILE: absent, a complete JSON object, or a file that
\* open(..., 'w') has truncated and json.dump has not finished
Missing == [kind |-> "missing", data |-> EmptyStates]
Partial == [kind |-> "partial", data |-> EmptyStates]
Valid(d) == [kind |-> "valid", data |-> d]

\* load_bug_state: {} when the file is absent or does not parse
load_bug_state(f) == IF f.kind = "valid" THEN f.data ELSE EmptyStates

\* line 37 with the file opened for update ('r+'), which does not truncate
open_r_plus(f, opened) == f

\* save_bug_state, first half: open(STATE_FILE, 'w'). The open either
\* raises IOError (the file is left alone) or truncates the file.
open_w(f, opened) == IF opened THEN Partial ELSE f

\* save_bug_state, second half: json.dump and close. Either the whole
\* object reaches the file, or the write raises IOError (caught and
\* logged) and the file keeps what was written so far.
dump(f, bug_states, written) == IF written THEN Valid(bug_states) ELSE f

(* --------------------------- check_bugzilla --------------------------- *)

\* has the record an id that passes "if bug_id:"
has_id(bug) == "id" \in DOMAIN bug /\ bug["id"] # 0

\* lines 109 and 114 with "elif not previous_status" written "elif previous_status"
classify_negated(previous_status, current_status) ==
    IF truthy(previous_status) /\ previous_status # current_status THEN "changed"
    ELSE IF truthy(previous_status) THEN "new"
    ELSE "unchanged"

\* the branch the loop takes for one record, from lines 108-117
classify(previous_status, current_status) ==
    IF truthy(previous_status) /\ previous_status # current_status THEN "changed"
    ELSE IF ~truthy(previous_status) THEN "new"
    ELSE "unchanged"

\* what is appended to status_changed_bugs for one record
event_of(bug, previous_status, current_status) ==
    LET c == classify(previous_status, current_status)
    IN  IF c = "changed" THEN <<bug @@ ("_previous_status" :> previous_status)>>
        ELSE IF c = "new" THEN <<bug>>
        ELSE <<>>

\* one pass of the for loop, lines 94-117
loop_body(prev, acc, bug) ==
    LET bug_id         == get(bug, "id", 0)
        current_status == get(bug, "status", "Unknown")
        product        == get(bug, "product", "Unknown")
    IN  IF has_id(bug)
        THEN LET bug_id_str      == str(bug_id)
                 previous_status == get(prev, bug_id_str, None)
             IN  [current_states      |-> setitem(acc.current_states, bug_id_str, current_status),
                  all_bugs_info       |-> Append(acc.all_bugs_info, <<bug_id, current_status, product>>),
                  status_changed_bugs |-> acc.status_changed_bugs
                                            \o event_of(bug, previous_status, current_status)]
        ELSE acc

RECURSIVE loop(_, _, _)
loop(prev, acc, bs) ==
    IF bs = <<>> THEN acc ELSE loop(prev, loop_body(prev, acc, Head(bs)), Tail(bs))

\* lines 88-117: the three results of the loop over the fetched records
reconcile(prev, bs) ==
    loop(prev,
         [current_states |-> prev, all_bugs_info |-> <<>>, status_changed_bugs |-> <<>>],
         bs)

\* an event is New when it carries no _previous_status, Changed otherwise
IsNew(e) == "_previous_status" \notin DOMAIN e
IsChanged(e) == "_previous_status" \in DOMAIN e

(* ------------------------- send_to_google_chat ------------------------ *)

\* the outcome of one send_to_google_chat call: nothing is posted without
\* a webhook; a failed post is caught and logged. No outcome raises.
send_to_google_chat(webhook, posted) ==
    IF webhook = "" THEN "skipped"
    ELSE IF posted THEN "sent"
    ELSE "failed"

(* ------------------------------- state -------------------------------- *)

VARIABLES
    STATE_FILE,            \* contents of bug_state.json
    tracker,               \* the records the tracker answers with at present
    GOOGLE_CHAT_WEBHOOK,   \* config.GOOGLE_CHAT_WEBHOOK
    pc,                    \* position of the cycle
    previous_states,       \* check_bugzilla's locals
    bugs,
    fetch_ok,
    current_states,
    status_changed_bugs,
    all_bugs_info,
    save_result,           \* how the cycle's save_bug_state ended
    sent,                  \* outcome of the delivery of each event so far
    rpc,                   \* position of a daily-initial run of main
    reset,                 \* the daily-initial run since the last cycle: how its save
                           \* ended and the snapshot the state file held before it
    reset_during,          \* a daily-initial run between this cycle's load and save:
                           \* "none", "open" (it has opened the file), "saved"
    last                   \* the last finished cycle, while the tracker has not changed since

locals == <<previous_states, bugs, fetch_ok, current_states, status_changed_bugs,
            all_bugs_info, save_result, sent>>

vars == <<STATE_FILE, tracker, GOOGLE_CHAT_WEBHOOK, pc, previous_states, bugs, fetch_ok,
          current_states, status_changed_bugs, all_bugs_info, save_result, sent,
          rpc, reset, reset_during, last>>

NoReset == [result |-> "none", prior |-> EmptyStates]

NoLast == [set |-> FALSE, bugs |-> <<>>, fetch_ok |-> FALSE,
           events |-> <<>>, save |-> "none", sent |-> <<>>]

ClearLocals ==
    /\ previous_states' = EmptyStates
    /\ bugs' = <<>>
    /\ fetch_ok' = FALSE
    /\ current_states' = EmptyStates
    /\ status_changed_bugs' = <<>>
    /\ all_bugs_info' = <<>>
    /\ save_result' = "none"
    /\ sent' = <<>>

Init ==
    /\ STATE_FILE = Missing
    /\ tracker \in Answers
    /\ GOOGLE_CHAT_WEBHOOK \in {"", "https://chat"}
    /\ pc = "idle"
    /\ previous_states = EmptyStates
    /\ bugs = <<>>
    /\ fetch_ok = FALSE
    /\ current_states = EmptyStates
    /\ status_changed_bugs = <<>>
    /\ all_bugs_info = <<>>
    /\ save_result = "none"
    /\ sent = <<>>
    /\ rpc = "idle"
    /\ reset = NoReset
    /\ reset_during = "none"
    /\ last = NoLast

(* ------------------------------ the cycle ----------------------------- *)

\* check_bugzilla line 84
Load ==
    /\ pc = "idle"
    /\ pc' = "loaded"
    /\ previous_states' = load_bug_state(STATE_FILE)
    /\ reset_during' = "none"
    /\ UNCHANGED <<STATE_FILE, tracker, GOOGLE_CHAT_WEBHOOK, bugs, fetch_ok, current_states,
                   status_changed_bugs, all_bugs_info, save_result, sent, rpc,
                   reset, last>>

\* fetch_all_bugs: the records of the answer, or [] when the request fails
fetch_all_bugs(answer, ok) == IF ok THEN answer ELSE <<>>

\* check_bugzilla line 87
Fetch ==
    /\ pc = "loaded"
    /\ \E ok \in BOOLEAN :
          /\ bugs' = fetch_all_bugs(tracker, ok)
          /\ fetch_ok' = ok
    /\ pc' = "fetched"
    /\ UNCHANGED <<STATE_FILE, tracker, GOOGLE_CHAT_WEBHOOK, previous_states, current_states,
                   status_changed_bugs, all_bugs_info, save_result, sent, rpc,
                   reset, reset_during, last>>

\* check_bugzilla lines 88-117
Reconcile ==
    /\ pc = "fetched"
    /\ LET r == reconcile(previous_states, bugs)
       IN  /\ current_states' = r.current_states
           /\ all_bugs_info' = r.all_bugs_info
           /\ status_changed_bugs' = r.status_changed_bugs
    /\ pc' = "reconciled"
    /\ UNCHANGED <<STATE_FILE, tracker, GOOGLE_CHAT_WEBHOOK, previous_states, bugs, fetch_ok,
                   save_result, sent, rpc, reset, reset_during, last>>

\* check_bugzilla line 120, save_bug_state line 37
SaveOpen ==
    /\ pc = "reconciled"
    /\ \E opened \in BOOLEAN :
          /\ STATE_FILE' = open_w(STATE_FILE, opened)
          /\ pc' = IF opened THEN "writing" ELSE "returned"
          /\ save_result' = IF opened THEN "none" ELSE "open_failed"
    /\ UNCHANGED <<tracker, GOOGLE_CHAT_WEBHOOK, previous_states, bugs, fetch_ok,
                   current_states, status_changed_bugs, all_bugs_info, sent, rpc,
                   reset, reset_during, last>>

\* save_bug_state lines 38-40
SaveWrite ==
    /\ pc = "writing"
    /\ \E written \in BOOLEAN :
          /\ STATE_FILE' = dump(STATE_FILE, current_states, written)
          /\ save_result' = IF written THEN "ok" ELSE "write_failed"
    /\ pc' = "returned"
    /\ UNCHANGED <<tracker, GOOGLE_CHAT_WEBHOOK, previous_states, bugs, fetch_ok,
                   current_states, status_changed_bugs, all_bugs_info, sent, rpc,
                   reset, reset_during, last>>

\* the caller's loop over the returned events: one send_to_google_chat
\* per event, in order
Deliver ==
    /\ pc = "returned"
    /\ Len(sent) < Len(status_changed_bugs)
    /\ \E posted \in BOOLEAN :
          sent' = Append(sent, send_to_google_chat(GOOGLE_CHAT_WEBHOOK, posted))
    /\ UNCHANGED <<STATE_FILE, tracker, GOOGLE_CHAT_WEBHOOK, pc, previous_states, bugs,
                   fetch_ok, current_states, status_changed_bugs, all_bugs_info,
                   save_result, rpc, reset, reset_during, last>>

\* the cycle ends once every event was handed to send_to_google_chat
Finish ==
    /\ pc = "returned"
    /\ Len(sent) = Len(status_changed_bugs)
    /\ pc' = "idle"
    /\ last' = [set |-> TRUE, bugs |-> bugs,
                fetch_ok |-> fetch_ok, events |-> status_changed_bugs,
                save |-> save_result, sent |-> sent]
    /\ reset' = NoReset
    /\ reset_during' = "none"
    /\ ClearLocals
    /\ UNCHANGED <<STATE_FILE, tracker, GOOGLE_CHAT_WEBHOOK, rpc>>

\* the process is killed in the middle of a cycle
Crash ==
    /\ pc # "idle"
    /\ pc' = "idle"
    /\ last' = NoLast
    /\ reset' = NoReset
    /\ reset_during' = "none"
    /\ ClearLocals
    /\ UNCHANGED <<STATE_FILE, tracker, GOOGLE_CHAT_WEBHOOK, rpc>>

\* the answers one change of the tracker away from t: a record more, a
\* record less, or another record in the place of one
Changes(t) ==
    ({Append(t, b) : b \in BugDicts}
        \cup {SubSeq(t, 1, i - 1) \o SubSeq(t, i + 1, Len(t)) : i \in DOMAIN t}
        \cup {[t EXCEPT ![i] = b] : i \in DOMAIN t, b \in BugDicts})
    \cap (Answers \ {t})

\* the tracker's bugs change between two cycles (a change during a cycle
\* shows at the next fetch, as one made before the cycle does)
TrackerUpdate ==
    /\ pc = "idle"
    /\ tracker' \in Changes(tracker)
    /\ last' = NoLast
    /\ UNCHANGED <<STATE_FILE, GOOGLE_CHAT_WEBHOOK, pc, rpc, reset, reset_during>>
    /\ UNCHANGED locals

(* ------------------- main(daily_initial = True) ----------------------- *)

\* the cycle has loaded the state file and not yet opened it for writing
InWindow == pc \in {"loaded", "fetched", "reconciled"}

\* main line 24, save_bug_state({}) line 37
ResetOpen ==
    /\ rpc = "idle"
    /\ \E opened \in BOOLEAN :
          /\ STATE_FILE' = open_w(STATE_FILE, opened)
          /\ rpc' = IF opened THEN "writing" ELSE "idle"
          /\ reset' = [result |-> IF opened THEN "none" ELSE "open_failed",
                        prior  |-> load_bug_state(STATE_FILE)]
          /\ reset_during' = IF opened /\ InWindow THEN "open" ELSE "none"
    /\ last' = NoLast
    /\ UNCHANGED <<tracker, GOOGLE_CHAT_WEBHOOK, pc>>
    /\ UNCHANGED locals

\* save_bug_state({}) lines 38-40; the rest of main leaves the state file alone
ResetWrite ==
    /\ rpc = "writing"
    /\ \E written \in BOOLEAN :
          /\ STATE_FILE' = dump(STATE_FILE, EmptyStates, written)
          /\ reset' = [reset EXCEPT !.result = IF written THEN "ok" ELSE "write_failed"]
          /\ reset_during' = IF written /\ InWindow /\ reset_during = "open"
                               THEN "saved" ELSE "none"
    /\ rpc' = "idle"
    /\ last' = NoLast
    /\ UNCHANGED <<tracker, GOOGLE_CHAT_WEBHOOK, pc>>
    /\ UNCHANGED locals

\* the daily-initial run is killed inside save_bug_state({})
ResetCrash ==
    /\ rpc = "writing"
    /\ rpc' = "idle"
    /\ reset' = [reset EXCEPT !.result = "killed"]
    /\ reset_during' = "none"
    /\ last' = NoLast
    /\ UNCHANGED <<STATE_FILE, tracker, GOOGLE_CHAT_WEBHOOK, pc>>
    /\ UNCHANGED locals

(* ------------------------- the specifications ------------------------- *)

\* one poller: a run of main starts only when no other run is in flight
SeqLoad == rpc = "idle" /\ Load
SeqResetOpen == pc = "idle" /\ ResetOpen

Next ==
    \/ SeqLoad
    \/ Fetch
    \/ Reconcile
    \/ SaveOpen
    \/ SaveWrite
    \/ Deliver
    \/ Finish
    \/ Crash
    \/ TrackerUpdate
    \/ SeqResetOpen
    \/ ResetWrite
    \/ ResetCrash

Spec == Init /\ [][Next]_vars

\* a daily-initial run started while a cycle is in flight
NextConc ==
    \/ Load
    \/ Fetch
    \/ Reconcile
    \/ SaveOpen
    \/ SaveWrite
    \/ Deliver
    \/ Finish
    \/ Crash
    \/ TrackerUpdate
    \/ ResetOpen
    \/ ResetWrite
    \/ ResetCrash

\* GOOGLE_CHAT_WEBHOOK keeps its default of config.py line 20
InitConc == Init /\ GOOGLE_CHAT_WEBHOOK = ""

SpecConc == InitConc /\ [][NextConc]_vars

TypeOK ==
    /\ STATE_FILE.kind \in {"missing", "partial", "valid"}
    /\ pc \in {"idle", "loaded", "fetched", "reconciled", "writing", "returned"}
    /\ rpc \in {"idle", "writing"}

(* ------------------------------ C1 ------------------------------------ *)

\* the cycle before this one fetched the same list and saved, and no
\* daily-initial run came between the two
SecondPass ==
    /\ pc = "reconciled"
    /\ last.set
    /\ last.save = "ok"
    /\ last.bugs = bugs

\* C1: idempotence of unchanged state. A cycle that fetches the same list
\* as the cycle before it, against the snapshot that cycle saved, yields no
\* New and no Changed event.
C1_Idempotent == SecondPass => status_changed_bugs = <<>>

(* ------------------------------ C2 ------------------------------------ *)

\* the record carries an id
NonEmptyId(bug) == "id" \in DOMAIN bug

\* C2: initial run classification. With an empty prior snapshot, the events
\* are exactly the fetched records that carry an id, one New event each, in
\* fetch order, and no event is Changed.
C2_InitialRun ==
    (pc = "reconciled" /\ previous_states = EmptyStates)
        => /\ status_changed_bugs = SelectSeq(bugs, NonEmptyId)
           /\ \A i \in DOMAIN status_changed_bugs : IsNew(status_changed_bugs[i])

\* an initial run over two records with the same id and a record without id
C2_Witness ==
    /\ pc = "reconciled"
    /\ previous_states = EmptyStates
    /\ STATE_FILE.kind = "partial"
    /\ Len(bugs) = 2
    /\ Len(status_changed_bugs) = 1
    /\ \E i \in DOMAIN bugs : ~NonEmptyId(bugs[i])

(* ------------------------------ C3 ------------------------------------ *)

\* the status check_bugzilla reads from a record
StatusOf(bug) == get(bug, "status", "Unknown")

\* record i is fetched with a status other than the one the prior snapshot
\* holds for its id
Transition(i) ==
    /\ NonEmptyId(bugs[i])
    /\ str(bugs[i]["id"]) \in DOMAIN previous_states
    /\ previous_states[str(bugs[i]["id"])] # StatusOf(bugs[i])

\* the Changed event the claim expects for record i
ChangedEvent(i) ==
    bugs[i] @@ ("_previous_status" :> previous_states[str(bugs[i]["id"])])

Occurrences(q, x) == Cardinality({j \in DOMAIN q : q[j] = x})

\* C3: transition detection. Every fetched record whose id the prior
\* snapshot holds with another status gets one Changed event that carries
\* the prior status and the fetched status, and once the save succeeded
\* the state file maps the id to the fetched status.
C3_Transition ==
    /\ pc = "reconciled" =>
          \A i \in DOMAIN bugs :
              Transition(i) =>
                  Occurrences(status_changed_bugs, ChangedEvent(i)) = Occurrences(bugs, bugs[i])
    /\ (pc = "returned" /\ save_result = "ok") =>
          \A i \in DOMAIN bugs :
              Transition(i) =>
                  load_bug_state(STATE_FILE)[str(bugs[i]["id"])] = StatusOf(bugs[i])

(* ------------------------------ C4 ------------------------------------ *)

\* the keys of the records fetched in this cycle
FetchedKeys == {str(bugs[i]["id"]) : i \in {j \in DOMAIN bugs : NonEmptyId(bugs[j])}}

\* C4: retention of absent ids. An id of the prior snapshot that the fetch
\* does not return keeps its status in the next snapshot and gets no
\* event, and no id of the prior snapshot is missing from the persisted
\* snapshot when the cycle has ended.
C4_Retention ==
    /\ pc = "reconciled" =>
          \A k \in DOMAIN previous_states \ FetchedKeys :
              /\ k \in DOMAIN current_states
              /\ current_states[k] = previous_states[k]
              /\ \A j \in DOMAIN status_changed_bugs : str(status_changed_bugs[j]["id"]) # k
    /\ pc = "returned" =>
          /\ DOMAIN previous_states \subseteq DOMAIN load_bug_state(STATE_FILE)
          /\ \A k \in DOMAIN previous_states \ FetchedKeys :
                load_bug_state(STATE_FILE)[k] = previous_states[k]

(* ------------------------------ C5 ------------------------------------ *)

SaveFailed(r) == r \in {"open_failed", "write_failed"}

\* C5: save failure recovery. When the save of a cycle with events fails,
\* the cycle goes on to its end, the persisted snapshot is the one the cycle
\* loaded, and the next cycle over the unchanged tracker emits the same
\* events.
C5_SaveFailureRecovery ==
    /\ (pc = "returned" /\ SaveFailed(save_result) /\ status_changed_bugs # <<>>) =>
          load_bug_state(STATE_FILE) = previous_states
    /\ (pc = "reconciled" /\ last.set /\ SaveFailed(last.save) /\ last.events # <<>>
            /\ last.fetch_ok /\ fetch_ok) =>
          status_changed_bugs = last.events

(* ------------------------------ C6 ------------------------------------ *)

\* C6: atomic save. The state file never holds a half-written snapshot: it
\* is absent (before the first save) or holds a complete snapshot.
C6_AtomicSave == STATE_FILE.kind \in {"missing", "valid"}

(* ------------------------------ C7 ------------------------------------ *)

\* C7: a failed fetch leaves the snapshot alone. The cycle has no event and
\* the persisted snapshot after it is the snapshot it loaded.
C7_FetchFailure ==
    (pc = "returned" /\ ~fetch_ok) =>
        /\ status_changed_bugs = <<>>
        /\ load_bug_state(STATE_FILE) = previous_states

(* ------------------------------ C8 ------------------------------------ *)

\* C8: a failed delivery does not roll back state. The saved snapshot keeps
\* the status the cycle computed for the bug, every event of the cycle is
\* handed to send_to_google_chat, and the next cycle over the unchanged
\* tracker has no event for a bug whose delivery failed.
C8_DeliveryFailure ==
    /\ (pc = "returned" /\ save_result = "ok") =>
          \A i \in DOMAIN sent :
              sent[i] = "failed" =>
                  load_bug_state(STATE_FILE)[str(status_changed_bugs[i]["id"])]
                      = current_states[str(status_changed_bugs[i]["id"])]
    /\ last.set => Len(last.sent) = Len(last.events)
    /\ (pc = "reconciled" /\ last.set /\ last.save = "ok" /\ last.fetch_ok /\ fetch_ok) =>
          \A i \in DOMAIN last.sent :
              last.sent[i] = "failed" =>
                  \A j \in DOMAIN status_changed_bugs :
                      status_changed_bugs[j]["id"] # last.events[i]["id"]

(* ------------------------------ C9 ------------------------------------ *)

\* every fetched record with an id is New, none is Changed
AllNew ==
    /\ status_changed_bugs = SelectSeq(bugs, NonEmptyId)
    /\ \A i \in DOMAIN status_changed_bugs : IsNew(status_changed_bugs[i])

C10_NoLostUpdate ==
    (pc = "returned" /\ save_result = "ok" /\ reset_during = "saved" /\ rpc = "idle"
        /\ STATE_FILE.kind = "valid") =>
        STATE_FILE.data \in {EmptyStates, reconcile(EmptyStates, bugs).current_states}

(* ------------------------------ C11 ----------------------------------- *)

\* the New events of the cycle: the fetched records appended as they are
NewEvents == {status_changed_bugs[j] : j \in {k \in DOMAIN status_changed_bugs :
                                                  IsNew(status_changed_bugs[k])}}

\* C11: New exactly when absent. In an incremental cycle a fetched record
\* with an id is among the New events if and only if its id is not a key of
\* the prior snapshot, whatever status the snapshot holds for the id, the
\* empty string included.
C11_NewIffAbsent ==
    (pc = "reconciled" /\ previous_states # EmptyStates) =>
        \A i \in DOMAIN bugs :
            NonEmptyId(bugs[i]) =>
                (bugs[i] \in NewEvents <=> str(bugs[i]["id"]) \notin DOMAIN previous_states)

====
